---- MODULE Spec2Model ----
(***************************************************************************)
(* A model of the extraction core of src/main.py: ocr_image (language      *)
(* resolution, the hybrid eng/mni line pass, the direct single pass),      *)
(* extract_text_from_pdf (the page loop) and edit_page_text.               *)
(*                                                                         *)
(* Strings are sequences of one-character strings, so that split, join,    *)
(* strip, re.sub and lower are computed as Python computes them.  The      *)
(* recognition engine (pytesseract) and the rasterizer (pdf2image) are the *)
(* environment: what they return, or that they raise, is chosen from small *)
(* sets.  An image is its size only; preprocess_image keeps the size.      *)
(***************************************************************************)
EXTENDS Integers, Sequences, FiniteSets, TLC

VARIABLES
    call,       \* ocr_image taken alone: its arguments and the engine's answers
    ocr,        \* ocr_image taken alone: what the call did and returned
    pc,         \* extract_text_from_pdf: "idle", "pages" (inside the loop)
    language,   \* extract_text_from_pdf: the language argument
    images,     \* extract_text_from_pdf: the rasterized images
    index,      \* extract_text_from_pdf: i of enumerate(images)
    result,     \* extract_text_from_pdf: the result dict being built
    engine,     \* per page of result: what the engine did for it (history)
    ret,        \* what the last extract_text_from_pdf handed to its caller
    db,         \* the TinyDB table of stored documents
    resp        \* edit_page_text: the last request and its response

vars == <<call, ocr, pc, language, images, index, result, engine, ret, db, resp>>

-----------------------------------------------------------------------------
(* Python string operations on sequences of characters *)

\* str.isspace for the characters of the model
Whitespace == {" ", "\n", "\t"}

RECURSIVE LStrip(_)
LStrip(s) ==
    IF s # <<>> /\ Head(s) \in Whitespace THEN LStrip(Tail(s)) ELSE s

RECURSIVE RStrip(_)
RStrip(s) ==
    IF s # <<>> /\ s[Len(s)] \in Whitespace
    THEN RStrip(SubSeq(s, 1, Len(s) - 1)) ELSE s

\* str.strip()
Strip(s) == RStrip(LStrip(s))

\* sep.join(parts)
RECURSIVE Join(_, _)
Join(parts, sep) ==
    IF parts = <<>> THEN <<>>
    ELSE IF Len(parts) = 1 THEN parts[1]
    ELSE parts[1] \o <<sep>> \o Join(Tail(parts), sep)

\* s.split(sep): every separator cuts, empty pieces are kept ("".split("+") = [""])
RECURSIVE SplitOnAcc(_, _, _)
SplitOnAcc(s, sep, cur) ==
    IF s = <<>> THEN <<cur>>
    ELSE IF Head(s) = sep THEN <<cur>> \o SplitOnAcc(Tail(s), sep, <<>>)
    ELSE SplitOnAcc(Tail(s), sep, Append(cur, Head(s)))

SplitOn(s, sep) == SplitOnAcc(s, sep, <<>>)

\* s.split(): cut at runs of whitespace, no empty pieces
RECURSIVE SplitWsAcc(_, _)
SplitWsAcc(s, cur) ==
    IF s = <<>> THEN (IF cur = <<>> THEN <<>> ELSE <<cur>>)
    ELSE IF Head(s) \in Whitespace
         THEN (IF cur = <<>> THEN <<>> ELSE <<cur>>) \o SplitWsAcc(Tail(s), <<>>)
         ELSE SplitWsAcc(Tail(s), Append(cur, Head(s)))

SplitWs(s) == SplitWsAcc(s, <<>>)

LowerLetters ==
    <<"a","b","c","d","e","f","g","h","i","j","k","l","m",
      "n","o","p","q","r","s","t","u","v","w","x","y","z">>

UpperLetters ==
    <<"A","B","C","D","E","F","G","H","I","J","K","L","M",
      "N","O","P","Q","R","S","T","U","V","W","X","Y","Z">>

Letters == {LowerLetters[i] : i \in 1..26} \cup {UpperLetters[i] : i \in 1..26}

\* the character class [a-zA-Z]
IsAlpha(ch) == ch \in Letters

\* re.sub(r'[^a-zA-Z]', '', t)
StripNonAlpha(t) == SelectSeq(t, IsAlpha)

ToLower ==
    [ch \in {UpperLetters[i] : i \in 1..26} |->
        LowerLetters[CHOOSE i \in 1..26 : ch = UpperLetters[i]]]

LowerChar(ch) == IF ch \in DOMAIN ToLower THEN ToLower[ch] ELSE ch

\* str.lower()
Lower(t) == [i \in 1..Len(t) |-> LowerChar(t[i])]

-----------------------------------------------------------------------------
(* Language codes and the words of the token universe, spelled out *)

AUTO == <<"a","u","t","o">>
ENG == <<"e","n","g">>
MNI == <<"m","n","i">>
HIN == <<"h","i","n">>
BEN == <<"b","e","n">>
XYZ == <<"x","y","z">>

\* the map with Meetei_Mayek sent to both codes
SCRIPT_LANG_MAP_Mixed ==
    [s \in {"Latin", "Meetei_Mayek", "Devanagari", "Bengali"} |->
        CASE s = "Latin" -> ENG
          [] s = "Meetei_Mayek" -> MNI \o <<"+">> \o ENG
          [] s = "Devanagari" -> HIN
          [] s = "Bengali" -> BEN]

SCRIPT_LANG_MAP ==
    [s \in {"Latin", "Meetei_Mayek", "Devanagari", "Bengali"} |->
        CASE s = "Latin" -> ENG
          [] s = "Meetei_Mayek" -> MNI
          [] s = "Devanagari" -> HIN
          [] s = "Bengali" -> BEN]

W_the == <<"t","h","e">>
W_court == <<"c","o","u","r","t">>
W_of == <<"o","f">>
W_imphal == <<"i","m","p","h","a","l">>
W_no == <<"n","o">>

\* The entries of COMMON_ENG_WORDS that the tokens of the model can normalize to
\* (no other normalized token of the model is in the source's set).
COMMON_ENG_WORDS == {W_the, W_court, W_of, W_imphal, W_no}

-----------------------------------------------------------------------------
(* detect_script and the language resolution at the head of ocr_image *)

\* "Script" in line, for the field names of an OSD report
MentionsScript(name) == name \in {"Script", "Script confidence"}

\* detect_script: the value of the first report line that mentions Script;
\* "Latin" when the engine raises or no line does
detect_script(osd) ==
    IF osd.raises THEN "Latin"
    ELSE LET hits == SelectSeq(osd.lines, LAMBDA l : MentionsScript(l.name))
         IN IF hits = <<>> THEN "Latin" ELSE hits[1].value

\* SCRIPT_LANG_MAP.get(script, "eng")
ScriptLang(script) ==
    IF script \in DOMAIN SCRIPT_LANG_MAP THEN SCRIPT_LANG_MAP[script] ELSE ENG

\* lang after "if lang == 'auto': ..."
requested_spec(lang, osd) ==
    IF lang = AUTO THEN ScriptLang(detect_script(osd)) ELSE lang

\* requested_langs = lang.split('+')
requested_langs(lang) == SplitOn(lang, "+")

\* valid_langs without the filter on the installed languages
valid_langs_Unfiltered(lang, available) == requested_langs(lang)

\* valid_langs = [l for l in requested_langs if l in available_languages]
valid_langs(lang, available) ==
    SelectSeq(requested_langs(lang), LAMBDA l : l \in available)

\* final_lang falling back to eng without asking whether anything is installed
final_lang_AssumeEng(valid, available, first) ==
    IF valid = <<>>
    THEN [none |-> FALSE, lang |-> ENG]
    ELSE [none |-> FALSE, lang |-> Join(valid, "+")]

\* final_lang, or none when ocr_image returns None for want of any language;
\* first is list(available_languages)[0], whichever element the set yields
final_lang(valid, available, first) ==
    IF valid = <<>>
    THEN IF ENG \in available THEN [none |-> FALSE, lang |-> ENG]
         ELSE IF available # {} THEN [none |-> FALSE, lang |-> first]
         ELSE [none |-> TRUE, lang |-> <<>>]
    ELSE [none |-> FALSE, lang |-> Join(valid, "+")]

\* if 'mni' in valid_langs and 'eng' in valid_langs
UseHybrid(valid) ==
    /\ \E i \in 1..Len(valid) : valid[i] = MNI
    /\ \E i \in 1..Len(valid) : valid[i] = ENG

-----------------------------------------------------------------------------
(* The hybrid pass: grouping, classification, crop, re-recognition *)

\* int(data['conf'][i]) == -1 marks a row that is no text
SentinelConf == -1

\* score >= 0.2, as the fraction ThresholdNum / ThresholdDen
ThresholdNum == 1
ThresholdDen == 5

padding == 5

\* the re-recognition call made with both languages
ReOcrLang_Both == MNI \o <<"+">> \o ENG

\* lang='mni' of the re-recognition call
ReOcrLang == MNI

KeyOf(row) == <<row.block_num, row.par_num, row.line_num>>

\* tuple order of Python on (block, par, line)
KeyLess(a, b) ==
    \/ a[1] < b[1]
    \/ a[1] = b[1] /\ a[2] < b[2]
    \/ a[1] = b[1] /\ a[2] = b[2] /\ a[3] < b[3]

\* lines.keys(): the keys of the rows that pass the conf filter
LineKeys(rows) ==
    {KeyOf(rows[i]) : i \in {j \in 1..Len(rows) : rows[j].conf # SentinelConf}}

\* lines[key]: the rows of one line, in the order the engine gave them
LineData(rows, key) ==
    SelectSeq(rows, LAMBDA r : r.conf # SentinelConf /\ KeyOf(r) = key)

\* the keys taken greatest first
RECURSIVE sorted_keys_Descending(_)
sorted_keys_Descending(keys) ==
    IF keys = {} THEN <<>>
    ELSE LET most == CHOOSE k \in keys : \A o \in keys : o = k \/ KeyLess(o, k)
         IN <<most>> \o sorted_keys_Descending(keys \ {most})

\* sorted(lines.keys())
RECURSIVE sorted_keys(_)
sorted_keys(keys) ==
    IF keys = {} THEN <<>>
    ELSE LET least == CHOOSE k \in keys : \A o \in keys : o = k \/ KeyLess(k, o)
         IN <<least>> \o sorted_keys(keys \ {least})

\* l_data['text']
Texts(l_data) == [i \in 1..Len(l_data) |-> l_data[i].text]

\* line_text_eng = " ".join(l_data['text']).strip()
line_text_eng(l_data) == Strip(Join(Texts(l_data), " "))

\* tokens, after both list comprehensions
norm_tokens(line_text) ==
    LET words == SplitWs(line_text)
        cleaned == [i \in 1..Len(words) |-> Lower(StripNonAlpha(words[i]))]
    IN SelectSeq(cleaned, LAMBDA t : t # <<>>)

\* is_eng with "score > 0.2"
is_eng_Strict(line_text) ==
    LET tokens == norm_tokens(line_text)
        match_count == Cardinality({i \in 1..Len(tokens) : tokens[i] \in COMMON_ENG_WORDS})
    IN /\ tokens # <<>>
       /\ match_count * ThresholdDen > ThresholdNum * Len(tokens)

\* is_eng
is_eng(line_text) ==
    LET tokens == norm_tokens(line_text)
        match_count == Cardinality({i \in 1..Len(tokens) : tokens[i] \in COMMON_ENG_WORDS})
    IN /\ tokens # <<>>
       /\ match_count * ThresholdDen >= ThresholdNum * Len(tokens)

MinOf(S) == CHOOSE x \in S : \A y \in S : x <= y
MaxOf(S) == CHOOSE x \in S : \A y \in S : x >= y

\* the padded box without the clamp to the image
CropBox_Unclamped(l_data, image) ==
    LET idx == 1..Len(l_data)
        x_min == MinOf({l_data[i].left : i \in idx})
        y_min == MinOf({l_data[i].top : i \in idx})
        x_max == MaxOf({l_data[i].left + l_data[i].width : i \in idx})
        y_max == MaxOf({l_data[i].top + l_data[i].height : i \in idx})
    IN <<x_min - padding, y_min - padding, x_max + padding, y_max + padding>>

\* the box handed to image.crop: <<left, top, right, bottom>>
CropBox(l_data, image) ==
    LET idx == 1..Len(l_data)
        x_min == MinOf({l_data[i].left : i \in idx})
        y_min == MinOf({l_data[i].top : i \in idx})
        x_max == MaxOf({l_data[i].left + l_data[i].width : i \in idx})
        y_max == MaxOf({l_data[i].top + l_data[i].height : i \in idx})
    IN << MaxOf({0, x_min - padding}),
          MaxOf({0, y_min - padding}),
          MinOf({image.width, x_max + padding}),
          MinOf({image.height, y_max + padding}) >>

NoBox == <<>>

\* one record per line of the for loop: what was done for it
LineEntry(key, text, skipped, eng, box, reocr, raised, out) ==
    [key |-> key, text |-> text, skipped |-> skipped, is_eng |-> eng,
     box |-> box, reocr |-> reocr, raised |-> raised, out |-> out]

EngineCall(op, lang, box) == [op |-> op, lang |-> lang, box |-> box]

\* the body of "for key in sorted_keys", from the line at the head of keys on;
\* acc carries final_text, the engine calls made and the per-line records
RECURSIVE HybridLoop(_, _, _)
HybridLoop(c, keys, acc) ==
    IF keys = <<>> THEN acc
    ELSE
    LET key == Head(keys)
        l_data == LineData(c.data.rows, key)
        text == line_text_eng(l_data)
    IN IF text = <<>>
       THEN HybridLoop(c, Tail(keys),
                [acc EXCEPT !.lines = Append(@,
                    LineEntry(key, text, TRUE, FALSE, NoBox, 0, FALSE, <<>>))])
       ELSE IF is_eng(text)
       THEN HybridLoop(c, Tail(keys),
                [acc EXCEPT !.text = @ \o text \o <<"\n">>,
                            !.lines = Append(@,
                    LineEntry(key, text, FALSE, TRUE, NoBox, 0, FALSE, text))])
       ELSE LET box == CropBox(l_data, c.image)
                answer == c.rerec[key]
                made == Append(acc.calls, EngineCall("image_to_string", ReOcrLang, box))
            IN IF answer.raises
               THEN [acc EXCEPT !.raised = TRUE, !.calls = made,
                                !.lines = Append(@,
                        LineEntry(key, text, FALSE, FALSE, box, 1, TRUE, <<>>))]
               ELSE LET mni_text == Strip(answer.text)
                    IN HybridLoop(c, Tail(keys),
                          [acc EXCEPT !.text = @ \o mni_text \o <<"\n">>,
                                      !.calls = made,
                                      !.lines = Append(@,
                              LineEntry(key, text, FALSE, FALSE, box, 1, FALSE, mni_text))])

-----------------------------------------------------------------------------
(* ocr_image *)

PageBox(image) == <<0, 0, image.width, image.height>>

\* what a call of ocr_image did: ret is the return value (ok FALSE is None)
Trace(ok, text, nolang, valid, final, hybrid, calls, lines, raised) ==
    [ret |-> [ok |-> ok, text |-> text], nolang |-> nolang,
     valid_langs |-> valid, final_lang |-> final, hybrid |-> hybrid,
     calls |-> calls, lines |-> lines, raised |-> raised]

\* return pytesseract.image_to_string(image, lang=final_lang)
DirectPass(c, valid, final, hybrid, calls) ==
    LET made == Append(calls, EngineCall("image_to_string", final, PageBox(c.image)))
    IN IF c.direct.raises
       THEN Trace(FALSE, <<>>, FALSE, valid, final, hybrid, made, <<>>, TRUE)
       ELSE Trace(TRUE, c.direct.text, FALSE, valid, final, hybrid, made, <<>>, FALSE)

\* the hybrid branch, from image_to_data on
HybridPass(c, valid, final, calls) ==
    LET made == Append(calls, EngineCall("image_to_data", ENG, PageBox(c.image)))
    IN IF c.data.raises
       THEN Trace(FALSE, <<>>, FALSE, valid, final, TRUE, made, <<>>, TRUE)
       ELSE IF ~c.data.hasText
       THEN DirectPass(c, valid, final, TRUE, made)
       ELSE LET done == HybridLoop(c, sorted_keys(LineKeys(c.data.rows)),
                            [text |-> <<>>, calls |-> made, lines |-> <<>>,
                             raised |-> FALSE])
            IN IF done.raised
               THEN Trace(FALSE, <<>>, FALSE, valid, final, TRUE, done.calls, done.lines, TRUE)
               ELSE Trace(TRUE, done.text, FALSE, valid, final, TRUE, done.calls, done.lines, FALSE)

\* ocr_image(image, lang); c holds the arguments and the engine's answers
ocr_image(c) ==
    LET asked == <<EngineCall("get_languages", <<>>, NoBox)>>
    IN IF c.langs.raises
       THEN Trace(FALSE, <<>>, FALSE, <<>>, <<>>, FALSE, asked, <<>>, TRUE)
       ELSE
       LET available == c.langs.set
           calls == IF c.lang = AUTO
                    THEN Append(asked, EngineCall("image_to_osd", <<>>, PageBox(c.image)))
                    ELSE asked
           lang == requested_spec(c.lang, c.osd)
           valid == valid_langs(lang, available)
           final == final_lang(valid, available, c.langs.first)
       IN IF final.none
          THEN Trace(FALSE, <<>>, TRUE, valid, <<>>, FALSE, calls, <<>>, FALSE)
          ELSE IF UseHybrid(valid)
          THEN HybridPass(c, valid, final.lang, calls)
          ELSE DirectPass(c, valid, final.lang, FALSE, calls)

\* "if text is not None"
Truthy_NotNone(r) == r.ok

\* "if text" on the value ocr_image returned
Truthy(r) == r.ok /\ r.text # <<>>

\* the page dict with the status not looked at
PageEntry_AlwaysSuccess(page_number, r) ==
    [page_number |-> page_number,
     text |-> IF r.ok THEN r.text ELSE <<>>,
     status |-> "success"]

\* the dict appended to result["pages"]
PageEntry(page_number, r) ==
    [page_number |-> page_number,
     text |-> IF Truthy(r) THEN r.text ELSE <<>>,
     status |-> IF Truthy(r) THEN "success" ELSE "ocr_failed"]

-----------------------------------------------------------------------------
(* The inputs: requests, engine answers, page layouts *)

MaxCodes == 3
MaxTokens == 6
MaxBoxes == 2
MaxRows == 2

SeqsUpTo(S, n) == UNION {[1..k -> S] : k \in 0..n}

\* the strings made of up to n of the pieces eng, mni, xyz and +
RECURSIVE Concats(_)
Concats(n) ==
    IF n = 0 THEN {<<>>}
    ELSE Concats(n - 1) \cup
         {a \o s : a \in {ENG, MNI, XYZ, <<"+">>}, s \in Concats(n - 1)}

Requests == Concats(MaxCodes) \cup {AUTO}

\* get_languages(): the installed set and the element its iteration yields first
LangAnswers ==
    UNION {{[raises |-> FALSE, set |-> S, first |-> f] : f \in S} :
            S \in SUBSET {ENG, MNI, HIN}}

NoLanguages == [raises |-> FALSE, set |-> {}, first |-> <<>>]
LangsRaise == [raises |-> TRUE, set |-> {}, first |-> <<>>]
Installed(S) == [raises |-> FALSE, set |-> S, first |-> CHOOSE f \in S : TRUE]

OsdLine(name, value) == [name |-> name, value |-> value]
OsdRaises == [raises |-> TRUE, lines |-> <<>>]
OsdNoScript == [raises |-> FALSE, lines |-> <<OsdLine("Rotate", "0")>>]
OsdFor(script) ==
    [raises |-> FALSE,
     lines |-> <<OsdLine("Rotate", "0"), OsdLine("Script", script),
                 OsdLine("Script confidence", "1.50")>>]

ScriptLabels == {"Latin", "Meetei_Mayek", "Devanagari", "Bengali", "Cyrillic"}
OsdReports == {OsdRaises, OsdNoScript} \cup {OsdFor(s) : s \in ScriptLabels}

Key1 == <<1, 1, 2>>
Key2 == <<2, 1, 1>>
Keys == {Key1, Key2}

Row(text, conf, key, box) ==
    [text |-> text, conf |-> conf,
     block_num |-> key[1], par_num |-> key[2], line_num |-> key[3],
     left |-> box[1], top |-> box[2], width |-> box[3], height |-> box[4]]

T_the == W_the
T_Court == <<"C","o","u","r","t",",">>
T_xyzabc == <<"x","y","z","a","b","c">>
T_12 == <<"1","2">>
T_blank == <<" ">>

TokenUniverse == {T_Court, T_xyzabc, T_12, T_blank}

Answer(text) == [raises |-> FALSE, text |-> text]
Raises == [raises |-> TRUE, text |-> <<>>]

ReOcrAnswers == {Raises, Answer(<<>>), Answer(<<" ", "#", "\n">>)}
DirectAnswers == {Raises, Answer(<<>>), Answer(<<"t","h","e","\n">>)}

Data(rows) == [raises |-> FALSE, hasText |-> TRUE, rows |-> rows]
DataRaises == [raises |-> TRUE, hasText |-> FALSE, rows |-> <<>>]
DataNoText == [raises |-> FALSE, hasText |-> FALSE, rows |-> <<>>]

BigImage == [width |-> 40, height |-> 12]
MNI_ENG == MNI \o <<"+">> \o ENG
ENG_MNI == ENG \o <<"+">> \o MNI

Call(lang, image, langs, osd, data, rerec, direct) ==
    [lang |-> lang, image |-> image, langs |-> langs, osd |-> osd,
     data |-> data, rerec |-> rerec, direct |-> direct]

SameAnswer(a) == [k \in Keys |-> a]

\* the box of the i-th token of a line laid out left to right
SlotBox(i) == <<4 * (i - 1) + 1, 2, 3, 4>>

HybridAnswer == Answer(<<" ", "#", "\n">>)
DirectAnswer == Answer(<<"t","h","e","\n">>)

\* one line of tokens, every one a text row, in hybrid mode
LineCalls(c) ==
    \E toks \in SeqsUpTo(TokenUniverse, MaxTokens) :
        c = Call(MNI_ENG, BigImage, Installed({ENG, MNI}), OsdFor("Latin"),
                 Data([i \in 1..Len(toks) |-> Row(toks[i], 90, Key1, SlotBox(i))]),
                 SameAnswer(HybridAnswer), Raises)

ImageSizes == {[width |-> 8, height |-> 6], [width |-> 20, height |-> 9]}

\* the boxes the engine can report inside an image
BoxesIn(image) ==
    {b \in {0, 3, 6, 18} \X {0, 4, 7} \X {1, 2} \X {2} :
        b[1] + b[3] <= image.width /\ b[2] + b[4] <= image.height}

\* one line of unknown words with any boxes, in any image
BoxCalls(c) ==
    \E image \in ImageSizes :
        \E boxes \in SeqsUpTo(BoxesIn(image), MaxBoxes) \ {<<>>} :
            c = Call(MNI_ENG, image, Installed({ENG, MNI}), OsdFor("Latin"),
                     Data([i \in 1..Len(boxes) |-> Row(T_xyzabc, 90, Key1, boxes[i])]),
                     SameAnswer(HybridAnswer), Raises)

KeyBox(key) == IF key = Key1 THEN <<2, 1, 6, 3>> ELSE <<9, 6, 6, 3>>

RowUniverse ==
    {Row(t, conf, key, KeyBox(key)) :
        t \in {T_the, T_xyzabc, T_blank}, conf \in {SentinelConf, 90}, key \in Keys}

\* pages of up to MaxRows rows in any order, any answer for each line
LayoutCalls(c) ==
    \E rows \in SeqsUpTo(RowUniverse, MaxRows), rerec \in [Keys -> ReOcrAnswers] :
        c = Call(MNI_ENG, BigImage, Installed({ENG, MNI}), OsdFor("Latin"),
                 Data(rows), rerec, DirectAnswer)

OnePage == Data(<<Row(T_the, 90, Key1, KeyBox(Key1))>>)

\* any request against any installed set, with the page fixed
ResolverCalls(c) ==
    \/ \E lang \in Requests, langs \in LangAnswers \cup {NoLanguages} :
          c = Call(lang, BigImage, langs, OsdFor("Latin"), OnePage,
                   SameAnswer(HybridAnswer), DirectAnswer)
    \/ \E langs \in LangAnswers \cup {NoLanguages}, osd \in OsdReports :
          c = Call(AUTO, BigImage, langs, osd, OnePage,
                   SameAnswer(HybridAnswer), DirectAnswer)

\* the calls in which an engine call other than the per-line one fails, or
\* the structured output has no text column
FailureCalls(c) ==
    \E lang \in {ENG, ENG_MNI}, langs \in {LangsRaise, Installed({ENG, MNI})},
       data \in {DataRaises, DataNoText}, direct \in DirectAnswers :
        c = Call(lang, BigImage, langs, OsdFor("Latin"), data,
                 SameAnswer(HybridAnswer), direct)

MaxOrderRows == 3

\* the row the engine reports for the page itself: no confidence, whole image
PageRowBox == <<0, 0, 40, 12>>

OrderRows ==
    {Row(t, 90, key, KeyBox(key)) : t \in {T_the, T_xyzabc, T_blank}, key \in Keys}
        \cup {Row(T_the, SentinelConf, key, PageRowBox) : key \in Keys}

OrderAnswers == {Answer(<<>>), HybridAnswer}

\* pages whose rows come in any order, text rows and rows without confidence
\* mixed, every engine call answering
OrderCalls(c) ==
    \E rows \in SeqsUpTo(OrderRows, MaxOrderRows), rerec \in [Keys -> OrderAnswers] :
        c = Call(MNI_ENG, BigImage, Installed({ENG, MNI}), OsdFor("Latin"),
                 Data(rows), rerec, DirectAnswer)


-----------------------------------------------------------------------------
(* One call of ocr_image, on inputs drawn from one of the families above *)

NotRun == [done |-> FALSE]
Ran(t) == [done |-> TRUE, t |-> t]

NoCall == [lang |-> <<>>]
NoResult == [page_count |-> 0, pages |-> <<>>]
NoReturn == [kind |-> "none"]
NoResponse == [kind |-> "none"]

Idle ==
    /\ pc = "idle" /\ language = <<>> /\ images = <<>> /\ index = 0
    /\ result = NoResult /\ engine = <<>> /\ ret = NoReturn

Pending == ocr = NotRun /\ Idle /\ db = <<>> /\ resp = NoResponse

RunOcr ==
    /\ call # NoCall
    /\ ~ocr.done
    /\ ocr' = Ran(ocr_image(call))
    /\ UNCHANGED <<call, pc, language, images, index, result, engine, ret, db, resp>>

NextOcr == RunOcr

InitOcr == (LayoutCalls(call) \/ FailureCalls(call)) /\ Pending
SpecOcr == InitOcr /\ [][NextOcr]_vars

InitResolver == ResolverCalls(call) /\ Pending
SpecResolver == InitResolver /\ [][NextOcr]_vars

InitLine == LineCalls(call) /\ Pending
SpecLine == InitLine /\ [][NextOcr]_vars

InitCrop == BoxCalls(call) /\ Pending
SpecCrop == InitCrop /\ [][NextOcr]_vars

InitOrder == OrderCalls(call) /\ Pending
SpecOrder == InitOrder /\ [][NextOcr]_vars

-----------------------------------------------------------------------------
(* extract_text_from_pdf: rasterize, then one ocr_image call per page *)

MaxPages == 2
MaxPageRows == 1

DocIds == {1, 2}
NewIds == {1}
DocLanguages == {AUTO, <<>>, MNI_ENG}

\* pdf_to_images: it raises, or yields n images
Rasters ==
    {[raises |-> TRUE, images |-> <<>>]} \cup
    {[raises |-> FALSE, images |-> [k \in 1..n |-> BigImage]] : n \in 0..MaxPages}

\* preprocess_image: grayscale, then the fixed threshold; the size stays
preprocess_image(image) == image

\* lang=language or "auto"
LangArg(lang) == IF lang = <<>> THEN AUTO ELSE lang

\* page_number = i
PageNumber_ZeroBased(k) == k

\* page_number = i + 1
PageNumber(k) == k + 1

\* what is remembered of a page's ocr_image call
PageHistory(c, t) ==
    [raised |-> t.raised, nolang |-> t.nolang, hybrid |-> t.hybrid,
     none_installed |-> ~c.langs.raises /\ c.langs.set = {},
     lines |-> Len(t.lines), ret |-> t.ret]

\* images = pdf_to_images(pdf_path); if not images: return None; result = {...}
StartExtract ==
    /\ pc = "idle"
    /\ \E lang \in DocLanguages, doc_id \in NewIds, raster \in Rasters :
          IF raster.raises
          THEN /\ ret' = [kind |-> "RasterizationError"]
               /\ UNCHANGED <<pc, language, images, index, result>>
          ELSE IF raster.images = <<>>
          THEN /\ ret' = [kind |-> "None"]
               /\ UNCHANGED <<pc, language, images, index, result>>
          ELSE /\ pc' = "pages"
               /\ language' = lang
               /\ images' = raster.images
               /\ index' = 0
               /\ result' = [id |-> doc_id, language |-> lang,
                             page_count |-> Len(raster.images), pages |-> <<>>]
               /\ ret' = NoReturn
    /\ engine' = <<>>
    /\ UNCHANGED <<call, ocr, db, resp>>

\* the body of the loop, the engine answering as in c
PageStep(c) ==
    LET t == ocr_image(c)
    IN /\ result' = [result EXCEPT
                       !.pages = Append(@, PageEntry(PageNumber(index), t.ret))]
       /\ engine' = Append(engine, PageHistory(c, t))
       /\ index' = index + 1

\* one turn of "for i, image in enumerate(images)": the engine answers a page
\* through the direct pass in any way, or through the hybrid pass in any way
OcrPage ==
    /\ pc = "pages"
    /\ index < Len(images)
    /\ LET processed == preprocess_image(images[index + 1])
           lang == LangArg(language)
       IN \/ \E langs \in {NoLanguages, LangsRaise, Installed({ENG}),
                           Installed({ENG, MNI})},
                osd \in IF lang = AUTO
                        THEN {OsdFor("Latin"), OsdFor("Meetei_Mayek")}
                        ELSE {OsdFor("Latin")},
                direct \in DirectAnswers :
                PageStep(Call(lang, processed, langs, osd, OnePage,
                              SameAnswer(HybridAnswer), direct))
          \/ /\ lang = MNI_ENG
             /\ \E data \in {DataRaises, DataNoText} \cup
                            {Data(rows) : rows \in SeqsUpTo(RowUniverse, MaxPageRows)},
                   a \in ReOcrAnswers :
                   PageStep(Call(lang, processed, Installed({ENG, MNI}),
                                 OsdFor("Latin"), data, SameAnswer(a), DirectAnswer))
    /\ UNCHANGED <<call, ocr, pc, language, images, ret, db, resp>>

\* "return result", once the loop has run out of images
ReturnResult ==
    /\ pc = "pages"
    /\ index = Len(images)
    /\ ret' = [kind |-> "Document", doc |-> result, engine |-> engine,
                images |-> Len(images)]
    /\ pc' = "idle" /\ language' = <<>> /\ images' = <<>> /\ index' = 0
    /\ result' = NoResult /\ engine' = <<>>
    /\ UNCHANGED <<call, ocr, db, resp>>

Init ==
    /\ call = NoCall /\ ocr = NotRun
    /\ Idle
    /\ db = <<>> /\ resp = NoResponse

Next == StartExtract \/ OcrPage \/ ReturnResult

Spec == Init /\ [][Next]_vars

-----------------------------------------------------------------------------
(* edit_page_text on the table of stored documents *)

\* the values ocr_image returned for the pages of a stored document
OcrReturns == {[ok |-> FALSE, text |-> <<>>], [ok |-> TRUE, text |-> <<"t","h","e","\n">>]}

NewTexts == {<<>>, <<"o","k">>}

\* the documents extract_text_from_pdf can have returned under an id
StoredDocs(doc_id) ==
    UNION {
        {[id |-> doc_id, language |-> AUTO, page_count |-> n,
          pages |-> [k \in 1..n |-> PageEntry(PageNumber(k - 1), r[k])]] :
            r \in [1..n -> OcrReturns]} :
        n \in 1..MaxPages}

\* db.get(Document.id == doc_id): the first match, or none
Get(table, doc_id) == SelectSeq(table, LAMBDA d : d.id = doc_id)

\* the for loop taking page_number for an index into pages
EditLoop_ZeroBased(document, page_number, new_text) ==
    IF page_number + 1 \notin 1..Len(document.pages)
    THEN [updated |-> FALSE, document |-> document]
    ELSE [updated |-> TRUE,
          document |-> [document EXCEPT
              !.pages[page_number + 1].text = new_text,
              !.pages[page_number + 1].status = "edited"]]

\* the for loop of edit_page_text: the first page with that number is edited
EditLoop(document, page_number, new_text) ==
    LET hits == {k \in 1..Len(document.pages) :
                    document.pages[k].page_number = page_number}
    IN IF hits = {}
       THEN [updated |-> FALSE, document |-> document]
       ELSE [updated |-> TRUE,
             document |-> [document EXCEPT
                 !.pages[MinOf(hits)].text = new_text,
                 !.pages[MinOf(hits)].status = "edited"]]

\* db.update(document, Document.id == doc_id)
Update(table, document, doc_id) ==
    [j \in 1..Len(table) |-> IF table[j].id = doc_id THEN document ELSE table[j]]

Response(kind, doc_id, page_number, new_text) ==
    [kind |-> kind, doc_id |-> doc_id, page_number |-> page_number,
     new_text |-> new_text]

edit_page_text(doc_id, page_number, new_text) ==
    LET found == Get(db, doc_id)
    IN IF found = <<>>
       THEN /\ resp' = Response("Document not found", doc_id, page_number, new_text)
            /\ UNCHANGED db
       ELSE LET done == EditLoop(found[1], page_number, new_text)
            IN IF ~done.updated
               THEN /\ resp' = Response("Page not found in document", doc_id,
                                        page_number, new_text)
                    /\ UNCHANGED db
               ELSE /\ db' = Update(db, done.document, doc_id)
                    /\ resp' = Response("Text updated", doc_id, page_number, new_text)

EditPage ==
    /\ \E doc_id \in DocIds \cup {3}, page_number \in 0..(MaxPages + 1),
          new_text \in NewTexts :
          edit_page_text(doc_id, page_number, new_text)
    /\ UNCHANGED <<call, ocr, pc, language, images, index, result, engine, ret>>

InitEdit ==
    /\ call = NoCall /\ ocr = NotRun
    /\ Idle
    /\ \/ \E d1 \in StoredDocs(1) : db = <<d1>>
       \/ \E d1 \in StoredDocs(1), d2 \in StoredDocs(2) : db = <<d2, d1>>
    /\ resp = NoResponse

NextEdit == EditPage

SpecEdit == InitEdit /\ [][NextEdit]_vars

-----------------------------------------------------------------------------
(* The claims *)

Failed(page) == page.status = "ocr_failed" /\ page.text = <<>>

\* C1: a returned Document has one entry per rasterized image; every page whose
\* ocr_image call had an engine call raise is ocr_failed with text "", and
\* every other page holds what its own call returned, whatever the others did.
C1_PageFailureIsolated ==
    ret.kind = "Document" =>
        /\ ret.images >= 1
        /\ Len(ret.doc.pages) = ret.images
        /\ ret.doc.page_count = ret.images
        /\ \A k \in 1..ret.images :
              LET page == ret.doc.pages[k]
                  own == ret.engine[k]
              IN /\ own.raised => Failed(page)
                 /\ (own.ret.ok /\ own.ret.text # <<>>) =>
                        page.status = "success" /\ page.text = own.ret.text

\* a two-page Document: page 1 succeeded, page 2's recognition raised
C1_Witness ==
    /\ ret.kind = "Document" /\ ret.images = 2
    /\ ret.doc.pages[1].status = "success" /\ ~ret.engine[1].raised
    /\ ret.engine[2].raised /\ Failed(ret.doc.pages[2])

NoneInstalled(own) == own.none_installed

RECURSIVE C3_Assembled(_, _)
C3_Assembled(c, keys) ==
    IF keys = <<>> THEN <<>>
    ELSE LET l_data == LineData(c.data.rows, Head(keys))
             text == line_text_eng(l_data)
             out == IF is_eng(text) THEN text
                    ELSE IF c.rerec[Head(keys)].raises THEN <<>>
                    ELSE Strip(c.rerec[Head(keys)].text)
         IN (IF text = <<>> THEN <<>> ELSE out \o <<"\n">>)
            \o C3_Assembled(c, Tail(keys))

\* C3: in hybrid mode a re-recognition call that raises costs only its own
\* line: the page is assembled from all the lines, "" standing for that line.
C3_ReOcrFailureIsolated ==
    (/\ ocr.done
     /\ \E n \in 1..Len(ocr.t.lines) : ocr.t.lines[n].raised) =>
        /\ ocr.t.ret.ok
        /\ ocr.t.ret.text = C3_Assembled(call, sorted_keys(LineKeys(call.data.rows)))
        /\ PageEntry(1, ocr.t.ret).status = "success"

\* C4: the pages of a Document, returned or being built, are numbered 1, 2, ...
\* in order, and a returned Document has page_count of them.
C4_PageNumbers ==
    /\ \A k \in 1..Len(result.pages) : result.pages[k].page_number = k
    /\ ret.kind = "Document" =>
          /\ Len(ret.doc.pages) = ret.doc.page_count
          /\ \A k \in 1..Len(ret.doc.pages) : ret.doc.pages[k].page_number = k

C4_Witness ==
    /\ ret.kind = "Document" /\ ret.doc.page_count = 2
    /\ ret.doc.pages[2].page_number = 2

\* the members of seq that are in S, in order
RECURSIVE C5_Keep(_, _)
C5_Keep(seq, S) ==
    IF seq = <<>> THEN <<>>
    ELSE (IF Head(seq) \in S THEN <<Head(seq)>> ELSE <<>>) \o C5_Keep(Tail(seq), S)

C5_Candidates(c) ==
    IF c.lang = AUTO
    THEN LET label == detect_script(c.osd)
         IN <<IF label \in DOMAIN SCRIPT_LANG_MAP THEN SCRIPT_LANG_MAP[label] ELSE ENG>>
    ELSE SplitOn(c.lang, "+")

\* C5: the resolved language is the candidates that are installed, in request
\* order, joined by +; with none installed it is eng if installed, else some
\* installed code, else there is none (ocr_image returns None).  With anything
\* installed the resolved codes are non-empty and all installed.
C5_Resolver ==
    (ocr.done /\ ~call.langs.raises) =>
        LET available == call.langs.set
            kept == C5_Keep(C5_Candidates(call), available)
            t == ocr.t
            codes == SplitOn(t.final_lang, "+")
        IN /\ t.valid_langs = kept
           /\ call.lang = AUTO => Len(C5_Candidates(call)) = 1
           /\ kept # <<>> => ~t.nolang /\ t.final_lang = Join(kept, "+")
           /\ (kept = <<>> /\ ENG \in available) => ~t.nolang /\ t.final_lang = ENG
           /\ (kept = <<>> /\ ENG \notin available /\ available # {}) =>
                  ~t.nolang /\ t.final_lang \in available
           /\ available = {} => t.nolang /\ ~t.ret.ok
           /\ available # {} =>
                  /\ ~t.nolang
                  /\ \A n \in 1..Len(codes) : codes[n] \in available
                  /\ \E n \in 1..Len(t.calls) :
                        t.calls[n].op \in {"image_to_string", "image_to_data"}

\* {eng, mni} installed, request auto, script Meetei_Mayek: the result is mni
C5_Witness ==
    /\ ocr.done /\ call.lang = AUTO /\ ~call.langs.raises
    /\ call.langs.set = {ENG, MNI}
    /\ detect_script(call.osd) = "Meetei_Mayek"
    /\ ocr.t.final_lang = MNI

C6_Judged(t) == SelectSeq(t.lines, LAMBDA e : ~e.skipped)
C6_ReOcred(t) == SelectSeq(t.lines, LAMBDA e : ~e.skipped /\ ~e.is_eng)
C6_StringCalls(t) == SelectSeq(t.calls, LAMBDA k : k.op = "image_to_string")

\* box holds every token box of the line
C6_Covers(box, l_data) ==
    \A n \in 1..Len(l_data) :
        /\ box[1] <= l_data[n].left /\ l_data[n].left + l_data[n].width <= box[3]
        /\ box[2] <= l_data[n].top /\ l_data[n].top + l_data[n].height <= box[4]

RECURSIVE C6_Concat(_)
C6_Concat(entries) ==
    IF entries = <<>> THEN <<>>
    ELSE Head(entries).out \o <<"\n">> \o C6_Concat(Tail(entries))

\* C6: in hybrid mode every line with non-empty provisional text is either
\* primary, kept as its joined provisional text with no engine call, or
\* re-recognized by exactly one image_to_string call on its crop with lang mni
\* alone, whose (stripped) answer is the line's text.
C6_HybridLines ==
    (ocr.done /\ ocr.t.hybrid /\ ~call.data.raises /\ call.data.hasText) =>
        LET t == ocr.t
            judged == C6_Judged(t)
            reocred == C6_ReOcred(t)
            strings == C6_StringCalls(t)
        IN /\ UseHybrid(t.valid_langs)
           /\ \A n \in 1..Len(judged) :
                 LET e == judged[n]
                     l_data == LineData(call.data.rows, e.key)
                 IN /\ e.text = Strip(Join(Texts(l_data), " "))
                    /\ e.text # <<>>
                    /\ e.is_eng => e.out = e.text /\ e.reocr = 0
                    /\ ~e.is_eng =>
                          /\ e.reocr = 1
                          /\ C6_Covers(e.box, l_data)
                          /\ ~e.raised => e.out = Strip(call.rerec[e.key].text)
           /\ Len(strings) = Len(reocred)
           /\ \A n \in 1..Len(strings) :
                 strings[n].lang = MNI /\ strings[n].box = reocred[n].box
           /\ ~t.raised =>
                 /\ t.ret.text = C6_Concat(judged)
                 /\ {judged[n].key : n \in 1..Len(judged)} =
                    {k \in LineKeys(call.data.rows) :
                        Strip(Join(Texts(LineData(call.data.rows, k)), " ")) # <<>>}

\* a page with a primary line and a re-recognized line
C6_Witness ==
    /\ ocr.done /\ ocr.t.hybrid /\ ~ocr.t.raised
    /\ \E n \in 1..Len(ocr.t.lines) : ocr.t.lines[n].is_eng
    /\ \E n \in 1..Len(ocr.t.lines) :
          ocr.t.lines[n].reocr = 1 /\ ocr.t.lines[n].out = <<"#">>

\* the engine's tokens of a line, each normalized, the empty ones dropped
C7_Normalized(texts) ==
    SelectSeq([n \in 1..Len(texts) |-> Lower(StripNonAlpha(texts[n]))],
              LAMBDA t : t # <<>>)

C7_Matches(norm) == Cardinality({n \in 1..Len(norm) : norm[n] \in COMMON_ENG_WORDS})

C7_Primary(norm) == norm # <<>> /\ 5 * C7_Matches(norm) >= Len(norm)

\* C7: a line is classified primary exactly when its normalized tokens are
\* not none and at least a fifth of them are in the vocabulary; a primary
\* line is not re-recognized, any other judged line is.
C7_Classifier ==
    ocr.done =>
        \A n \in 1..Len(ocr.t.lines) :
            LET e == ocr.t.lines[n]
                norm == C7_Normalized(Texts(LineData(call.data.rows, e.key)))
            IN ~e.skipped =>
                  /\ e.is_eng <=> C7_Primary(norm)
                  /\ e.reocr = IF C7_Primary(norm) THEN 0 ELSE 1
                  /\ (C7_Matches(norm) = Len(norm) /\ norm # <<>>) => e.is_eng
                  /\ norm = <<>> => ~e.is_eng

\* a line at the threshold: one of five normalized tokens is in the vocabulary
C7_Witness ==
    /\ ocr.done /\ Len(ocr.t.lines) = 1
    /\ LET norm == C7_Normalized(Texts(LineData(call.data.rows, ocr.t.lines[1].key)))
       IN Len(norm) = 5 /\ C7_Matches(norm) = 1
    /\ ocr.t.lines[1].is_eng /\ ocr.t.lines[1].reocr = 0

C8_Inside(box, image) ==
    box[1] >= 0 /\ box[2] >= 0 /\ box[3] <= image.width /\ box[4] <= image.height

\* C8: every crop box lies inside the image.
C8_CropInside ==
    ocr.done =>
        /\ \A n \in 1..Len(ocr.t.lines) :
              ocr.t.lines[n].reocr = 1 => C8_Inside(ocr.t.lines[n].box, call.image)
        /\ \A n \in 1..Len(ocr.t.calls) :
              ocr.t.calls[n].op = "image_to_string" =>
                  C8_Inside(ocr.t.calls[n].box, call.image)

\* a crop that the padding would carry over the left and the right edge
C8_Witness ==
    /\ ocr.done
    /\ \E n \in 1..Len(ocr.t.lines) :
          LET e == ocr.t.lines[n]
              l_data == LineData(call.data.rows, e.key)
          IN /\ e.reocr = 1
             /\ \E m \in 1..Len(l_data) : l_data[m].left < 5
             /\ \E m \in 1..Len(l_data) :
                   l_data[m].left + l_data[m].width + 5 > call.image.width
             /\ e.box[1] = 0 /\ e.box[3] = call.image.width

\* the stored document with the id of the request, before and after
C9_Stored(table, doc_id) == SelectSeq(table, LAMBDA d : d.id = doc_id)

\* C9: an edit of page p of a stored document with 1 <= p <= page_count sets
\* that page's text and status ("edited") and nothing else of the document;
\* any other p is answered "Page not found" and the table is as before.
C9_EditFrame ==
    [][\A doc_id \in DocIds :
          (resp'.kind # "none" /\ resp'.doc_id = doc_id /\ C9_Stored(db, doc_id) # <<>>) =>
              LET before == C9_Stored(db, doc_id)[1]
                  after == C9_Stored(db', doc_id)[1]
                  p == resp'.page_number
              IN IF p \in 1..before.page_count
                 THEN /\ resp'.kind = "Text updated"
                      /\ Len(db') = Len(db)
                      /\ after.page_count = before.page_count
                      /\ after.id = before.id
                      /\ Len(after.pages) = Len(before.pages)
                      /\ \A k \in 1..Len(before.pages) :
                            IF k = p
                            THEN /\ after.pages[k].text = resp'.new_text
                                 /\ after.pages[k].status = "edited"
                                 /\ after.pages[k].page_number = k
                            ELSE after.pages[k] = before.pages[k]
                 ELSE /\ resp'.kind = "Page not found in document"
                      /\ db' = db]_vars

\* page 2 of a two-page document edited, page 1 as extracted
C9_Witness ==
    /\ resp.kind = "Text updated" /\ resp.page_number = 2
    /\ \E n \in 1..Len(db) :
          /\ db[n].id = resp.doc_id /\ db[n].page_count = 2
          /\ db[n].pages[2].status = "edited"
          /\ db[n].pages[2].text = <<"o","k">>
          /\ db[n].pages[1].status = "success"

\* C10: in a returned Document a page is ocr_failed exactly when its text is
\* "" and success exactly when it is not, on the direct and the hybrid path.
C10_StatusMatchesText ==
    ret.kind = "Document" =>
        \A k \in 1..Len(ret.doc.pages) :
            LET page == ret.doc.pages[k]
            IN /\ page.status \in {"success", "ocr_failed"}
               /\ page.status = "ocr_failed" <=> page.text = <<>>
               /\ page.status = "success" <=> page.text # <<>>

\* a hybrid page whose only line was re-recognized to nothing: text "\n"
C10_Witness ==
    /\ ret.kind = "Document"
    /\ \E k \in 1..Len(ret.doc.pages) :
          /\ ret.engine[k].hybrid /\ ret.engine[k].lines = 1
          /\ ret.doc.pages[k].text = <<"\n">>
          /\ ret.doc.pages[k].status = "success"

\* the positions of the rows that carry a confidence
C11_Valid(rows) == {i \in 1..Len(rows) : rows[i].conf # SentinelConf}

\* the texts of the rows at the positions in S, in the order of the positions
RECURSIVE C11_TextsAt(_, _)
C11_TextsAt(rows, S) ==
    IF S = {} THEN <<>>
    ELSE LET last == CHOOSE i \in S : \A j \in S : j <= i
         IN Append(C11_TextsAt(rows, S \ {last}), rows[last].text)

\* the joined text of the region key, from its rows with a confidence only
C11_Joined(rows, key) ==
    Strip(Join(C11_TextsAt(rows, {i \in C11_Valid(rows) : KeyOf(rows[i]) = key}), " "))

\* the regions that have a non-blank joined text
C11_Regions(rows) ==
    {key \in {KeyOf(rows[i]) : i \in C11_Valid(rows)} : C11_Joined(rows, key) # <<>>}

\* the box around the rows of the region key that carry a confidence
C11_Box(rows, key, image) ==
    LET S == {i \in C11_Valid(rows) : KeyOf(rows[i]) = key}
    IN << MaxOf({0, MinOf({rows[i].left : i \in S}) - padding}),
          MaxOf({0, MinOf({rows[i].top : i \in S}) - padding}),
          MinOf({image.width, MaxOf({rows[i].left + rows[i].width : i \in S}) + padding}),
          MinOf({image.height, MaxOf({rows[i].top + rows[i].height : i \in S}) + padding}) >>

\* the number of newlines in a text
C11_Newlines(text) == Cardinality({i \in 1..Len(text) : text[i] = "\n"})

\* the line texts of the entries, each followed by a newline
RECURSIVE C11_Lines(_)
C11_Lines(entries) ==
    IF entries = <<>> THEN <<>>
    ELSE Head(entries).out \o <<"\n">> \o C11_Lines(Tail(entries))

\* rows with the neighbours at n and n + 1 exchanged
C11_Swap(rows, n) ==
    [i \in 1..Len(rows) |->
        IF i = n THEN rows[n + 1] ELSE IF i = n + 1 THEN rows[n] ELSE rows[i]]

\* the rows that carry a confidence, in the order given
C11_WithoutSentinel(rows) == SelectSeq(rows, LAMBDA r : r.conf # SentinelConf)

\* C11: a hybrid page that returns text returns one newline-terminated line
\* text per region with a non-blank joined text, in ascending (block, par,
\* line) order; the rows without a confidence add to no text and to no box,
\* and exchanging rows of different regions changes nothing.
C11_CanonicalOrder ==
    (ocr.done /\ ocr.t.hybrid /\ call.data.hasText /\ ocr.t.ret.ok) =>
        LET t == ocr.t
            rows == call.data.rows
            kept == SelectSeq(t.lines, LAMBDA e : ~e.skipped)
        IN /\ \A n \in 1..(Len(t.lines) - 1) : KeyLess(t.lines[n].key, t.lines[n + 1].key)
           /\ {t.lines[n].key : n \in 1..Len(t.lines)}
                  = {KeyOf(rows[i]) : i \in C11_Valid(rows)}
           /\ {kept[n].key : n \in 1..Len(kept)} = C11_Regions(rows)
           /\ \A n \in 1..Len(t.lines) : t.lines[n].text = C11_Joined(rows, t.lines[n].key)
           /\ \A n \in 1..Len(kept) :
                 /\ kept[n].is_eng => kept[n].out = C11_Joined(rows, kept[n].key)
                 /\ ~kept[n].is_eng =>
                       /\ kept[n].out = Strip(call.rerec[kept[n].key].text)
                       /\ kept[n].box = C11_Box(rows, kept[n].key, call.image)
           /\ t.ret.text = C11_Lines(kept)
           /\ C11_Newlines(t.ret.text) = Cardinality(C11_Regions(rows))
           /\ ocr_image([call EXCEPT !.data.rows = C11_WithoutSentinel(rows)]).ret = t.ret
           /\ \A n \in 1..(Len(rows) - 1) :
                 KeyOf(rows[n]) # KeyOf(rows[n + 1]) =>
                     ocr_image([call EXCEPT !.data.rows = C11_Swap(rows, n)]).ret = t.ret

\* the engine gave the second region first and a row without a confidence in
\* the first region; the page is the re-recognized first region, then "the"
C11_Witness ==
    /\ ocr.done /\ ocr.t.hybrid /\ ocr.t.ret.ok
    /\ Len(call.data.rows) = 3
    /\ KeyOf(call.data.rows[1]) = Key2 /\ call.data.rows[1].conf # SentinelConf
    /\ call.data.rows[1].text = T_the
    /\ KeyOf(call.data.rows[2]) = Key1 /\ call.data.rows[2].conf = SentinelConf
    /\ KeyOf(call.data.rows[3]) = Key1 /\ call.data.rows[3].text = T_xyzabc
    /\ call.data.rows[3].conf # SentinelConf
    /\ call.rerec[Key1] = HybridAnswer
    /\ ocr.t.ret.text = <<"#", "\n">> \o T_the \o <<"\n">>

\* the request names code between its '+' signs
C12_Names(lang, code) ==
    \E a \in 0..Len(lang), b \in 0..Len(lang) :
        /\ a <= b /\ SubSeq(lang, a + 1, b) = code
        /\ a = 0 \/ lang[a] = "+"
        /\ b = Len(lang) \/ lang[b + 1] = "+"

\* the calls of the hybrid path: the structured pass and the per-line crops
C12_HybridCalls(t) ==
    {n \in 1..Len(t.calls) :
        \/ t.calls[n].op = "image_to_data"
        \/ t.calls[n].op = "image_to_string" /\ t.calls[n].box # PageBox(call.image)}

\* C12: a request of "auto" resolves to at most one code, the one mapped
\* from the script or a fallback, and never takes the hybrid path; the hybrid
\* path is taken only for a request other than "auto" that names both eng and
\* mni with both installed.
C12_AutoNeverHybrid ==
    (ocr.done /\ ~call.langs.raises) =>
        LET t == ocr.t
        IN /\ call.lang = AUTO =>
                 /\ ~t.hybrid
                 /\ Len(t.valid_langs) <= 1
                 /\ t.lines = <<>>
                 /\ C12_HybridCalls(t) = {}
                 /\ ~t.nolang =>
                       /\ t.final_lang \in {ENG, MNI, HIN, BEN, call.langs.first}
                       /\ \A i \in 1..Len(t.final_lang) : t.final_lang[i] # "+"
           /\ (t.hybrid \/ C12_HybridCalls(t) # {}) =>
                 /\ call.lang # AUTO
                 /\ C12_Names(call.lang, ENG) /\ C12_Names(call.lang, MNI)
                 /\ {ENG, MNI} \subseteq call.langs.set

\* "auto" on a Meetei Mayek page with eng and mni installed: one direct pass in
\* mni and nothing per line
C12_Witness ==
    /\ ocr.done /\ call.lang = AUTO
    /\ {ENG, MNI} \subseteq call.langs.set
    /\ detect_script(call.osd) = "Meetei_Mayek"
    /\ ~ocr.t.hybrid /\ ocr.t.ret.ok
    /\ ocr.t.valid_langs = <<MNI>> /\ ocr.t.final_lang = MNI
    /\ \E n \in 1..Len(ocr.t.calls) :
          ocr.t.calls[n] = EngineCall("image_to_string", MNI, PageBox(call.image))

====
